---- MODULE Spec2Model ----
(***************************************************************************)
(* Model of the mixed_ref crate (src/src/lib.rs): the two enums MixedRef   *)
(* and MixedRefMut, their conversions, Deref/DerefMut, equality, Hash,     *)
(* Default and the Cow conversions.                                        *)
(*                                                                         *)
(* Memory is a map from addresses to contents.  Addresses 1..NumCells are  *)
(* data owned elsewhere (what a Borrowed variant refers to); the addresses *)
(* after them are heap allocations (what a Box<T> owns).  A wrapper is a   *)
(* record [kind, tag, ptr]: which enum, which variant, and the address the *)
(* Box or the reference holds.                                             *)
(***************************************************************************)
EXTENDS Integers, Sequences, FiniteSets, TLC

\* ---------------------------------------------------------------- bounds
NumCells == 1
MaxBoxes == 2
MaxWrappers == 2
MaxCap == 2

\* ------------------------------------------------------------- universes
Elem == {0, 1}
Cells == 1..NumCells
BoxAddr == (NumCells + 1)..(NumCells + MaxBoxes)
Addr == Cells \cup BoxAddr
Slots == 1..MaxWrappers

RECURSIVE SeqsUpTo(_)
SeqsUpTo(n) ==
  IF n = 0 THEN {<<>>}
  ELSE LET shorter == SeqsUpTo(n - 1)
       IN shorter \cup {Append(s, e) : s \in {t \in shorter : Len(t) = n - 1}, e \in Elem}

\* the contents written and boxed in the reference machine (T is a
\* sequence-like element type such as Vec<u8>: T::default() is empty)
Value == {<<>>, <<0>>, <<1>>}

\* the buffers of the Strings and Vecs the conversions consume
Buffers == SeqsUpTo(MaxCap)

VARIABLES
  mem,      \* [Addr -> content]: the data at each address
  nalloc,   \* number of heap allocations made so far
  frees,    \* [Addr -> Nat]: how many times each address was deallocated
  loan,     \* [Cells -> {"none","shared","mut"}]: the borrow taken on each cell
  slots,    \* [Slots -> wrapper | NoWrapper]: the live wrapper values
  last,     \* the operation performed last: [op, w, arg]
  input,    \* the value a conversion consumes (String, Vec, Box content, Cow)
  cow       \* the Cow a conversion produced

vars == <<mem, nalloc, frees, loan, slots, last, input, cow>>

\* ------------------------------------------------------- the enum values
NoWrapper == [kind |-> "None"]
NoValue == [type |-> "None"]

\* T::default()
DefaultT == <<>>

\* MixedRef::Owned(b), MixedRef::Borrowed(r)
MixedRef_Owned(b) == [kind |-> "MixedRef", tag |-> "Owned", ptr |-> b]
MixedRef_Borrowed(r) == [kind |-> "MixedRef", tag |-> "Borrowed", ptr |-> r]
\* MixedRefMut::Owned(b), MixedRefMut::Borrowed(r)
MixedRefMut_Owned(b) == [kind |-> "MixedRefMut", tag |-> "Owned", ptr |-> b]
MixedRefMut_Borrowed(r) == [kind |-> "MixedRefMut", tag |-> "Borrowed", ptr |-> r]

Live(w) == slots[w] # NoWrapper
IsRef(w) == Live(w) /\ slots[w].kind = "MixedRef"
IsMut(w) == Live(w) /\ slots[w].kind = "MixedRefMut"

\* ------------------------------------------------- the caller's data
\* reading through a reference: the data at the address it holds
read(a) == mem[a]

\* the lowest free slot of s, where a newly made wrapper value lives
HasFree(s) == \E w \in Slots : s[w] = NoWrapper
FreeSlot(s) ==
  CHOOSE w \in Slots : s[w] = NoWrapper /\ \A u \in Slots : u < w => s[u] # NoWrapper
Place(s, x) == [s EXCEPT ![FreeSlot(s)] = x]

\* mutant: the conversion takes its argument by reference and leaves it usable
Moved_kept(s, w) == s

\* a by-value `self` / argument: the source binding is moved out of
Moved(s, w) == [s EXCEPT ![w] = NoWrapper]

\* Box::new: the address of the next heap allocation
NextBox == NumCells + nalloc + 1
CanAlloc == nalloc < MaxBoxes

\* --------------------------------------------------------- constructors
\* mutant: the reference is turned into the Owned variant
from_ref_owned(r) == MixedRef_Owned(r)

\* impl From<&'a T> for MixedRef
from_ref(r) == MixedRef_Borrowed(r)

\* impl From<&'a mut T> for MixedRefMut
from_mut(r) == MixedRefMut_Borrowed(r)

\* impl From<Box<T>> for MixedRef
from_Box(b) == MixedRef_Owned(b)

\* impl From<Box<T>> for MixedRefMut
from_Box_mut(b) == MixedRefMut_Owned(b)

\* mutant: the default is built as the Borrowed variant
default_MixedRef_borrowed(b) == MixedRef_Borrowed(b)

\* impl Default for MixedRef: MixedRef::Owned(Default::default()), b the new Box
default_MixedRef(b) == MixedRef_Owned(b)

\* impl Default for MixedRefMut
default_MixedRefMut(b) == MixedRefMut_Owned(b)

\* mutant: the match arms yield the other variant
from_MixedRefMut_swapped(r) ==
  CASE r.tag = "Owned" -> MixedRef_Borrowed(r.ptr)
    [] r.tag = "Borrowed" -> MixedRef_Owned(r.ptr)

\* impl From<MixedRefMut> for MixedRef
from_MixedRefMut(r) ==
  CASE r.tag = "Owned" -> MixedRef_Owned(r.ptr)
    [] r.tag = "Borrowed" -> MixedRef_Borrowed(r.ptr)

\* MixedRefMut::downcast: self.into()
downcast(self) == from_MixedRefMut(self)

\* ------------------------------------------------------------- access
\* impl Deref for MixedRef: the address of the &T it yields
deref_MixedRef(self) ==
  CASE self.tag = "Owned" -> self.ptr
    [] self.tag = "Borrowed" -> self.ptr

\* impl Deref for MixedRefMut
deref_MixedRefMut(self) ==
  CASE self.tag = "Owned" -> self.ptr
    [] self.tag = "Borrowed" -> self.ptr

\* `self as &U` / auto-deref: the Deref impl of the wrapper's own type
deref(self) ==
  IF self.kind = "MixedRef" THEN deref_MixedRef(self) ELSE deref_MixedRefMut(self)

\* mutant: a Borrowed payload is written to a fresh copy, not to the referent
deref_mut_copy(self) ==
  CASE self.tag = "Owned" -> self.ptr
    [] self.tag = "Borrowed" -> NextBox

\* impl DerefMut for MixedRefMut: the address of the &mut T it yields
deref_mut(self) ==
  CASE self.tag = "Owned" -> self.ptr
    [] self.tag = "Borrowed" -> self.ptr

\* impl AsMut / BorrowMut for MixedRefMut: { self }
as_mut(self) == deref_mut(self)
borrow_mut(self) == deref_mut(self)

\* a plain value of the element type, compared through AsRef (T: AsRef<U>)
Plain(a) == [kind |-> "Plain", ptr |-> a]

\* other.as_ref(): impl AsRef for MixedRef / MixedRefMut is { self }
as_ref(other) == IF other.kind = "Plain" THEN other.ptr ELSE deref(other)

\* impl Borrow<T> for MixedRef / MixedRefMut: { self }
borrow(self) == deref(self)

\* mutant: the derived, structural equality, which compares the variants too
eq_structural(self, other) ==
  /\ read(deref(self)) = read(as_ref(other))
  /\ other.kind # "Plain" => self.tag = other.tag

\* impl PartialEq<T> for MixedRef / MixedRefMut: (self as &U) == other.as_ref()
eq(self, other) == read(deref(self)) = read(as_ref(other))

\* #[derive(Hash)]: what the wrapper feeds to the hasher, the variant's
\* discriminant and then the payload's own hash input
discriminant(self) == IF self.tag = "Owned" THEN 0 ELSE 1
hash(self) == <<discriminant(self), read(deref(self))>>

\* mutant: the payload is deallocated whichever the variant
drop_glue_all(self) == {self.ptr}

\* drop glue of the enums: a Box payload is deallocated, a reference is not
drop_glue(self) == IF self.tag = "Owned" THEN {self.ptr} ELSE {}

\* ------------------------------------------- String, Vec and Cow values
\* a String / Vec<T>: a buffer of `capacity` elements, the first len in use
Strings == {s \in [buf : Buffers, len : 0..MaxCap] : s.len <= Len(s.buf)}

\* mutant: the whole buffer is boxed, the unused capacity included
into_boxed_str_cap(s) == s.buf

\* String::into_boxed_str / Vec::into_boxed_slice: the excess capacity is
\* dropped, the Box holds exactly the len elements in use
into_boxed_str(s) == SubSeq(s.buf, 1, s.len)
into_boxed_slice(v) == SubSeq(v.buf, 1, v.len)

\* impl From<String> for MixedRef<str>: Self::from(s.into_boxed_str()),
\* b the Box into_boxed_str made
from_String(b) == from_Box(b)

\* impl From<String> for MixedRefMut<str>
from_String_mut(b) == from_Box_mut(b)

\* impl From<Vec<T>> for MixedRef<[T]>
from_Vec(b) == from_Box(b)

\* impl From<Vec<T>> for MixedRefMut<[T]>
from_Vec_mut(b) == from_Box_mut(b)

\* Cow::Owned(s), Cow::Borrowed(r)
Cow_Owned(s) == [type |-> "Cow", variant |-> "Owned", val |-> s]
Cow_Borrowed(r) == [type |-> "Cow", variant |-> "Borrowed", val |-> r]

\* <T::Owned as Into<Box<T>>>::into, e.g. String -> Box<str>
owned_into_box(s) == into_boxed_str(s)

\* <Box<T> as Into<T::Owned>>::into, e.g. Box<str> -> String: the Box's
\* allocation becomes the buffer, len = capacity
box_into_owned(content) == [buf |-> content, len |-> Len(content)]

\* impl From<Cow<'a, T>> for MixedRef, b the Box that b.into() made
from_Cow(c, b) ==
  CASE c.variant = "Owned" -> MixedRef_Owned(b)
    [] c.variant = "Borrowed" -> MixedRef_Borrowed(c.val)

\* mutant: the data is always handed over as an owned value
into_Cow_owned(self) == Cow_Owned(box_into_owned(read(self.ptr)))

\* impl Into<Cow<'a, T>> for MixedRef
into_Cow(self) ==
  CASE self.tag = "Owned" -> Cow_Owned(box_into_owned(read(self.ptr)))
    [] self.tag = "Borrowed" -> Cow_Borrowed(self.ptr)

\* impl Into<Cow<'a, T>> for MixedRefMut: MixedRef::from(self).into()
into_Cow_mut(self) == into_Cow(from_MixedRefMut(self))

\* ------------------------------------------------------------- actions
\* the record of the call made last: the operation, the slot of the wrapper
\* it made or used, and its argument (the reference, the Box, the value
\* written, or the wrapper consumed)
Op(o, w, a) == [op |-> o, w |-> w, arg |-> a]

\* MixedRef::from(&cell): a shared borrow of a cell nobody borrows mutably
FromRef(c) ==
  /\ HasFree(slots)
  /\ loan[c] # "mut"
  /\ slots' = Place(slots, from_ref(c))
  /\ loan' = [loan EXCEPT ![c] = "shared"]
  /\ last' = Op("from_ref", FreeSlot(slots), c)
  /\ UNCHANGED <<mem, nalloc, frees, input, cow>>

\* MixedRefMut::from(&mut cell): the only borrow of the cell
FromMut(c) ==
  /\ HasFree(slots)
  /\ loan[c] = "none"
  /\ slots' = Place(slots, from_mut(c))
  /\ loan' = [loan EXCEPT ![c] = "mut"]
  /\ last' = Op("from_mut", FreeSlot(slots), c)
  /\ UNCHANGED <<mem, nalloc, frees, input, cow>>

\* MixedRef::from(Box::new(v))
FromBox(v) ==
  /\ HasFree(slots)
  /\ CanAlloc
  /\ mem' = [mem EXCEPT ![NextBox] = v]
  /\ nalloc' = nalloc + 1
  /\ slots' = Place(slots, from_Box(NextBox))
  /\ last' = Op("from_box", FreeSlot(slots), NextBox)
  /\ UNCHANGED <<frees, loan, input, cow>>

\* MixedRefMut::from(Box::new(v))
FromBoxMut(v) ==
  /\ HasFree(slots)
  /\ CanAlloc
  /\ mem' = [mem EXCEPT ![NextBox] = v]
  /\ nalloc' = nalloc + 1
  /\ slots' = Place(slots, from_Box_mut(NextBox))
  /\ last' = Op("from_box_mut", FreeSlot(slots), NextBox)
  /\ UNCHANGED <<frees, loan, input, cow>>

\* MixedRef::default()
DefaultRef ==
  /\ HasFree(slots)
  /\ CanAlloc
  /\ mem' = [mem EXCEPT ![NextBox] = DefaultT]
  /\ nalloc' = nalloc + 1
  /\ slots' = Place(slots, default_MixedRef(NextBox))
  /\ last' = Op("default", FreeSlot(slots), NextBox)
  /\ UNCHANGED <<frees, loan, input, cow>>

\* MixedRefMut::default()
DefaultMut ==
  /\ HasFree(slots)
  /\ CanAlloc
  /\ mem' = [mem EXCEPT ![NextBox] = DefaultT]
  /\ nalloc' = nalloc + 1
  /\ slots' = Place(slots, default_MixedRefMut(NextBox))
  /\ last' = Op("default_mut", FreeSlot(slots), NextBox)
  /\ UNCHANGED <<frees, loan, input, cow>>

\* the &mut T the chosen mutable access operation yields
access_mut(via, self) ==
  CASE via = "deref_mut" -> deref_mut(self)
    [] via = "as_mut" -> as_mut(self)
    [] via = "borrow_mut" -> borrow_mut(self)

\* *m = v, the &mut T taken through deref_mut, as_mut or borrow_mut
Write(w, via, v) ==
  /\ IsMut(w)
  /\ mem' = [mem EXCEPT ![access_mut(via, slots[w])] = v]
  /\ last' = Op("write", w, v)
  /\ UNCHANGED <<nalloc, frees, loan, slots, input, cow>>

\* m.downcast(): consumes the MixedRefMut, yields the MixedRef
Downcast(w) ==
  /\ IsMut(w)
  /\ HasFree(Moved(slots, w))
  /\ slots' = Place(Moved(slots, w), downcast(slots[w]))
  /\ last' = Op("downcast", FreeSlot(Moved(slots, w)), slots[w])
  /\ UNCHANGED <<mem, nalloc, frees, loan, input, cow>>

\* the wrapper goes out of scope; a borrow ends with its last holder
Drop(w) ==
  /\ Live(w)
  /\ frees' = [a \in Addr |-> IF a \in drop_glue(slots[w]) THEN frees[a] + 1 ELSE frees[a]]
  /\ mem' = [a \in Addr |-> IF a \in drop_glue(slots[w]) THEN DefaultT ELSE mem[a]]
  /\ slots' = [slots EXCEPT ![w] = NoWrapper]
  /\ loan' = [c \in Cells |->
       IF slots[w].tag = "Borrowed" /\ slots[w].ptr = c
          /\ ~ \E u \in Slots \ {w} : Live(u) /\ slots[u].tag = "Borrowed" /\ slots[u].ptr = c
       THEN "none" ELSE loan[c]]
  /\ last' = Op("drop", w, slots[w])
  /\ UNCHANGED <<nalloc, input, cow>>

\* MixedRef::<str>::from(s) / MixedRefMut::<str>::from(s), s the input String
FromString ==
  /\ input.type = "String"
  /\ HasFree(slots)
  /\ CanAlloc
  /\ mem' = [mem EXCEPT ![NextBox] = into_boxed_str(input.val)]
  /\ nalloc' = nalloc + 1
  /\ slots' = Place(slots, from_String(NextBox))
  /\ last' = Op("from_string", FreeSlot(slots), NextBox)
  /\ UNCHANGED <<frees, loan, input, cow>>

FromStringMut ==
  /\ input.type = "String"
  /\ HasFree(slots)
  /\ CanAlloc
  /\ mem' = [mem EXCEPT ![NextBox] = into_boxed_str(input.val)]
  /\ nalloc' = nalloc + 1
  /\ slots' = Place(slots, from_String_mut(NextBox))
  /\ last' = Op("from_string_mut", FreeSlot(slots), NextBox)
  /\ UNCHANGED <<frees, loan, input, cow>>

\* MixedRef::<[T]>::from(v) / MixedRefMut::<[T]>::from(v), v the input Vec
FromVec ==
  /\ input.type = "Vec"
  /\ HasFree(slots)
  /\ CanAlloc
  /\ mem' = [mem EXCEPT ![NextBox] = into_boxed_slice(input.val)]
  /\ nalloc' = nalloc + 1
  /\ slots' = Place(slots, from_Vec(NextBox))
  /\ last' = Op("from_vec", FreeSlot(slots), NextBox)
  /\ UNCHANGED <<frees, loan, input, cow>>

FromVecMut ==
  /\ input.type = "Vec"
  /\ HasFree(slots)
  /\ CanAlloc
  /\ mem' = [mem EXCEPT ![NextBox] = into_boxed_slice(input.val)]
  /\ nalloc' = nalloc + 1
  /\ slots' = Place(slots, from_Vec_mut(NextBox))
  /\ last' = Op("from_vec_mut", FreeSlot(slots), NextBox)
  /\ UNCHANGED <<frees, loan, input, cow>>

\* MixedRef::from(c), c the input Cow: an Owned payload is boxed, a Borrowed
\* one is a shared borrow that goes on
FromCow ==
  /\ input.type = "Cow"
  /\ HasFree(slots)
  /\ last' = Op("from_cow", FreeSlot(slots), input)
  /\ IF input.variant = "Owned"
     THEN /\ CanAlloc
          /\ mem' = [mem EXCEPT ![NextBox] = owned_into_box(input.val)]
          /\ nalloc' = nalloc + 1
          /\ slots' = Place(slots, from_Cow(input, NextBox))
          /\ UNCHANGED loan
     ELSE /\ loan[input.val] # "mut"
          /\ slots' = Place(slots, from_Cow(input, NextBox))
          /\ loan' = [loan EXCEPT ![input.val] = "shared"]
          /\ UNCHANGED <<mem, nalloc>>
  /\ UNCHANGED <<frees, input, cow>>

\* let c: Cow<T> = r.into(), r a MixedRef: an Owned Box becomes the Cow's
\* owned value, a Borrowed reference goes on in the Cow
IntoCow(w) ==
  /\ IsRef(w)
  /\ cow' = into_Cow(slots[w])
  /\ slots' = Moved(slots, w)
  /\ last' = Op("into_cow", w, slots[w])
  /\ UNCHANGED <<mem, nalloc, frees, loan, input>>

\* let c: Cow<T> = m.into(), m a MixedRefMut
MutIntoCow(w) ==
  /\ IsMut(w)
  /\ cow' = into_Cow_mut(slots[w])
  /\ slots' = Moved(slots, w)
  /\ last' = Op("mut_into_cow", w, slots[w])
  /\ UNCHANGED <<mem, nalloc, frees, loan, input>>

Init ==
  /\ mem = [a \in Addr |-> DefaultT]
  /\ nalloc = 0
  /\ frees = [a \in Addr |-> 0]
  /\ loan = [c \in Cells |-> "none"]
  /\ slots = [w \in Slots |-> NoWrapper]
  /\ last = Op("init", 0, 0)
  /\ input = NoValue
  /\ cow = NoValue

Next ==
  \/ \E c \in Cells : FromRef(c)
  \/ \E c \in Cells : FromMut(c)
  \/ \E v \in Value : FromBox(v)
  \/ \E v \in Value : FromBoxMut(v)
  \/ DefaultRef
  \/ DefaultMut
  \/ \E w \in Slots, via \in {"deref_mut", "as_mut", "borrow_mut"}, v \in Value :
       Write(w, via, v)
  \/ \E w \in Slots : Downcast(w)
  \/ \E w \in Slots : Drop(w)

Spec == Init /\ [][Next]_vars

\* ------------------------------------------- the conversions' inputs
Inputs ==
  {[type |-> t, val |-> s] : t \in {"String", "Vec"}, s \in Strings}
    \cup {[type |-> "Box", val |-> b] : b \in Buffers}
    \cup {Cow_Owned(s) : s \in Strings}
    \cup {Cow_Borrowed(r) : r \in Cells}
    \cup {[type |-> "MutRef", val |-> r] : r \in Cells}

\* whether the input is a reference to a cell
RefersToCell(i) ==
  \/ i.type = "MutRef"
  \/ i.type = "Cow" /\ i.variant = "Borrowed"

InitConv ==
  /\ input \in Inputs
  /\ \E c \in Buffers :
       mem = [a \in Addr |-> IF a \in Cells /\ RefersToCell(input) THEN c ELSE DefaultT]
  /\ nalloc = 0
  /\ frees = [a \in Addr |-> 0]
  /\ loan = [c \in Cells |-> "none"]
  /\ slots = [w \in Slots |-> NoWrapper]
  /\ last = Op("init", 0, 0)
  /\ cow = NoValue

NextConv ==
  \/ input.type = "Box" /\ FromBox(input.val)
  \/ input.type = "Box" /\ FromBoxMut(input.val)
  \/ FromString
  \/ FromStringMut
  \/ FromVec
  \/ FromVecMut
  \/ FromCow
  \/ input.type = "MutRef" /\ FromMut(input.val)
  \/ \E w \in Slots : Downcast(w)
  \/ \E w \in Slots : IntoCow(w)
  \/ \E w \in Slots : MutIntoCow(w)

SpecConv == InitConv /\ [][NextConv]_vars

\* ================================================================ claims
\* what a wrapper refers to: the data at the address its payload holds
Content(x) == mem[x.ptr]
Wrappers == {w \in Slots : Live(w)}
Allocated(b) == b \in BoxAddr /\ b <= NumCells + nalloc
Owners(b) == {w \in Wrappers : slots[w].tag = "Owned" /\ slots[w].ptr = b}

\* C1: downcast(m) yields a MixedRef with m's tag and m's payload (the same
\* Box, the same referent), without allocating, copying or changing the
\* data, so that its content is m's content right before the downcast.
C1_DowncastLaw ==
  [][last'.op = "downcast" =>
       \E w \in Slots :
         /\ IsMut(w)
         /\ last'.arg = slots[w]
         /\ slots'[last'.w].kind = "MixedRef"
         /\ slots'[last'.w].tag = slots[w].tag
         /\ slots'[last'.w].ptr = slots[w].ptr
         /\ mem'[deref(slots'[last'.w])] = mem[deref(slots[w])]
         /\ mem' = mem /\ nalloc' = nalloc /\ frees' = frees]_vars

\* C1 witness: a Borrowed MixedRefMut whose referent was written through it
\* has just been downcast.
C1_Witness ==
  /\ last.op = "downcast"
  /\ last.arg.tag = "Borrowed"
  /\ slots[last.w] = MixedRef_Borrowed(last.arg.ptr)
  /\ Content(slots[last.w]) # DefaultT

\* C2: x == y holds iff the data x refers to equals the data y refers to,
\* for y another wrapper of either type and variant, and for y a plain value
\* of the element type; the variants play no part.
C2_EqualityByContent ==
  /\ \A x \in Wrappers, y \in Wrappers :
       eq(slots[x], slots[y]) <=> (Content(slots[x]) = Content(slots[y]))
  /\ \A x \in Wrappers, a \in Addr :
       eq(slots[x], Plain(a)) <=> (Content(slots[x]) = mem[a])

\* C2 witness: an Owned and a Borrowed wrapper of equal, non-default content
\* compare equal, while a plain value of other content compares unequal.
C2_Witness ==
  \E x \in Wrappers, y \in Wrappers, a \in Addr :
    /\ slots[x].tag = "Owned" /\ slots[y].tag = "Borrowed"
    /\ Content(slots[x]) # DefaultT
    /\ eq(slots[x], slots[y])
    /\ ~ eq(slots[x], Plain(a))

\* C3: a write through the mutable access operation lands at the wrapper's
\* own address and nowhere else (the Box of an Owned wrapper, the referent
\* of a Borrowed one); the data a wrapper refers to changes only by a write
\* through that wrapper, so later dereferences observe the write; and
\* dropping a Borrowed wrapper leaves the referent as written, with the
\* borrow over, for the owner to read.
C3_MutationLaw ==
  [][/\ last'.op = "write" =>
          /\ IsMut(last'.w)
          /\ slots' = slots
          /\ mem'[deref(slots[last'.w])] = last'.arg
          /\ \A a \in Addr \ {slots[last'.w].ptr} : mem'[a] = mem[a]
          /\ slots[last'.w].tag = "Owned" =>
               /\ slots[last'.w].ptr \in BoxAddr
               /\ Owners(slots[last'.w].ptr) = {last'.w}
          /\ slots[last'.w].tag = "Borrowed" => slots[last'.w].ptr \in Cells
     /\ \A w \in Wrappers :
          (slots'[w] = slots[w] /\ ~ (last'.op = "write" /\ last'.w = w))
            => mem'[deref(slots[w])] = mem[deref(slots[w])]
     /\ last'.op = "downcast" => mem' = mem
     /\ (last'.op = "drop" /\ last'.arg.tag = "Borrowed") =>
          /\ mem'[last'.arg.ptr] = mem[last'.arg.ptr]
          /\ last'.arg.kind = "MixedRefMut" => loan'[last'.arg.ptr] = "none"]_vars

\* C3 witness: a Borrowed MixedRefMut was dropped and the cell, which started
\* with the default content, holds what was written through the wrapper.
C3_Witness ==
  /\ last.op = "drop"
  /\ last.arg.kind = "MixedRefMut"
  /\ last.arg.tag = "Borrowed"
  /\ mem[last.arg.ptr] # DefaultT
  /\ loan[last.arg.ptr] = "none"

\* C4: every heap allocation has exactly one Owned wrapper as its owner until
\* it is deallocated, is deallocated at most once, and exactly when its
\* owner is dropped; dropping a wrapper never deallocates borrowed data.
C4_SingleOwnerSingleFree ==
  /\ \A b \in BoxAddr :
       /\ frees[b] <= 1
       /\ Allocated(b) /\ frees[b] = 0 => Cardinality(Owners(b)) = 1
       /\ frees[b] = 1 => Owners(b) = {}
       /\ ~ Allocated(b) => frees[b] = 0 /\ Owners(b) = {}
  /\ \A c \in Cells : frees[c] = 0
  /\ \A w \in Wrappers : slots[w].tag = "Owned" <=> slots[w].ptr \in BoxAddr
  /\ (last.op = "drop" /\ last.arg.tag = "Owned") => frees[last.arg.ptr] = 1
  /\ (last.op = "drop" /\ last.arg.tag = "Borrowed") => frees[last.arg.ptr] = 0

\* C4 witness: an Owned MixedRef was dropped and its Box deallocated once,
\* while another wrapper still borrows a cell.
C4_Witness ==
  /\ last.op = "drop"
  /\ last.arg.kind = "MixedRef"
  /\ last.arg.tag = "Owned"
  /\ frees[last.arg.ptr] = 1
  /\ \E w \in Wrappers : slots[w].tag = "Borrowed"

\* C5: a live Borrowed MixedRefMut is the only access path to its referent:
\* no other wrapper refers to it and the owner's cell is mutably borrowed;
\* after a downcast the MixedRefMut is gone, the new MixedRef is the only
\* wrapper that reaches the data, and the cell is still not the owner's.
C5_Exclusivity ==
  /\ \A w \in Wrappers :
       (slots[w].kind = "MixedRefMut" /\ slots[w].tag = "Borrowed") =>
         /\ loan[slots[w].ptr] = "mut"
         /\ \A u \in Wrappers \ {w} : slots[u].ptr # slots[w].ptr
  /\ (last.op = "downcast" /\ last.arg.tag = "Borrowed") =>
       /\ slots[last.w].kind = "MixedRef"
       /\ slots[last.w].ptr = last.arg.ptr
       /\ \A u \in Wrappers \ {last.w} : slots[u].ptr # last.arg.ptr
       /\ loan[last.arg.ptr] = "mut"

\* C5 witness: a Borrowed MixedRefMut was downcast while another wrapper is
\* live.
C5_Witness ==
  /\ last.op = "downcast"
  /\ last.arg.tag = "Borrowed"
  /\ Cardinality(Wrappers) >= 2

\* C6: constructing a wrapper from a reference r yields the Borrowed variant
\* of the matching type whose dereference is r's own address, and the
\* construction allocates nothing and copies or changes no data.
C6_BorrowedConstruction ==
  [][last'.op \in {"from_ref", "from_mut"} =>
       /\ slots[last'.w] = NoWrapper
       /\ slots'[last'.w].tag = "Borrowed"
       /\ slots'[last'.w].kind = (IF last'.op = "from_ref" THEN "MixedRef" ELSE "MixedRefMut")
       /\ deref(slots'[last'.w]) = last'.arg
       /\ last'.arg \in Cells
       /\ nalloc' = nalloc /\ mem' = mem /\ frees' = frees]_vars

\* C6 witness: a MixedRef was just constructed from a reference to a cell
\* that holds non-default data.
C6_Witness ==
  /\ last.op = "from_ref"
  /\ slots[last.w] = MixedRef_Borrowed(last.arg)
  /\ mem[last.arg] # DefaultT

\* C8: Default for MixedRef and for MixedRefMut yields the Owned variant of
\* that type, and dereferencing it yields T::default().
C8_DefaultLaw ==
  /\ last.op = "default" =>
       /\ slots[last.w].kind = "MixedRef"
       /\ slots[last.w].tag = "Owned"
       /\ read(deref(slots[last.w])) = DefaultT
  /\ last.op = "default_mut" =>
       /\ slots[last.w].kind = "MixedRefMut"
       /\ slots[last.w].tag = "Owned"
       /\ read(deref(slots[last.w])) = DefaultT

\* C8 witness: MixedRef::default() was just called while another wrapper
\* holds non-default data.
C8_Witness ==
  /\ last.op = "default"
  /\ slots[last.w].tag = "Owned"
  /\ \E w \in Wrappers : Content(slots[w]) # DefaultT

\* C9: two wrappers of the same type that compare equal feed the same input
\* to the hasher.
C9_HashConsistentWithEq ==
  \A x \in Wrappers, y \in Wrappers :
    (slots[x].kind = slots[y].kind /\ eq(slots[x], slots[y]))
      => hash(slots[x]) = hash(slots[y])

\* the elements a String / Vec holds, in order: the len first of its buffer
OwnedContent(s) == [i \in 1..s.len |-> s.buf[i]]
\* the data a Cow refers to
CowContent(c) == IF c.variant = "Owned" THEN OwnedContent(c.val) ELSE mem[c.val]
\* the owned value a construction consumed
InputContent == IF input.type = "Box" THEN input.val ELSE OwnedContent(input.val)

\* C7: constructing a MixedRef or a MixedRefMut from a Box<T>, a String or a
\* Vec<T> yields the Owned variant of that type, and dereferencing it yields
\* the content of the value consumed, the same elements in the same order.
C7_OwnedConstruction ==
  LET refOps == {"from_box", "from_string", "from_vec"}
      mutOps == {"from_box_mut", "from_string_mut", "from_vec_mut"}
  IN  last.op \in refOps \cup mutOps =>
        /\ slots[last.w].tag = "Owned"
        /\ slots[last.w].kind = (IF last.op \in refOps THEN "MixedRef" ELSE "MixedRefMut")
        /\ read(deref(slots[last.w])) = InputContent

\* C7 witness: a MixedRefMut<str> was just built from a non-empty String
\* that has spare capacity.
C7_Witness ==
  /\ last.op = "from_string_mut"
  /\ input.val.len >= 1
  /\ input.val.len < Len(input.val.buf)
  /\ slots[last.w].tag = "Owned"

\* C10: From<Cow> keeps the variant and the content (and the referent of a
\* Borrowed Cow); Into<Cow> keeps the variant and the content (and the
\* referent); so a Cow converted to MixedRef and back has its variant and
\* equal content; and a MixedRefMut converts to the Cow that downcasting it
\* and converting the MixedRef gives.
C10_CowConversions ==
  /\ last.op = "from_cow" =>
       /\ slots[last.w].kind = "MixedRef"
       /\ slots[last.w].tag = input.variant
       /\ Content(slots[last.w]) = CowContent(input)
       /\ input.variant = "Borrowed" => slots[last.w].ptr = input.val
  /\ last.op \in {"into_cow", "mut_into_cow"} =>
       /\ cow.variant = last.arg.tag
       /\ CowContent(cow) = mem[last.arg.ptr]
       /\ last.arg.tag = "Borrowed" => cow.val = last.arg.ptr
  /\ (last.op = "into_cow" /\ input.type = "Cow") =>
       /\ cow.variant = input.variant
       /\ CowContent(cow) = CowContent(input)
  /\ last.op = "mut_into_cow" => cow = into_Cow(downcast(last.arg))

\* C10 witness: an Owned Cow with spare capacity went to MixedRef and back,
\* and came back as another Cow value (the capacity is gone).
C10_Witness ==
  /\ last.op = "into_cow"
  /\ input.type = "Cow"
  /\ input.variant = "Owned"
  /\ input.val.len >= 1
  /\ input.val.len < Len(input.val.buf)
  /\ cow # input

====
